---- MODULE Spec2Model ----
(***************************************************************************)
(* Formula Production Feasibility Checker (src/streamlit_app.py).          *)
(*                                                                         *)
(* The recursive resolver get_best_recipe_path is modelled as a machine    *)
(* with an explicit call stack: one frame per activation that reached the  *)
(* recursive case, a register `call` holding the argument of a call that   *)
(* has been made and not yet dispatched, and a register `ret` holding the  *)
(* value a call has just returned.  The driver loop of the main process    *)
(* (one top-level call per target row, one memo_cache per analysis) calls  *)
(* it and appends one row per target to `results`.                         *)
(*                                                                         *)
(* Ratios are Python floats len(available_rms) / total_count.  For the     *)
(* small counts of the model the float quotient of two integers is         *)
(* determined by, and ordered like, the exact fraction, so a ratio is      *)
(* kept as a reduced fraction <<numerator, denominator>>.                  *)
(***************************************************************************)
EXTENDS Integers, Sequences, FiniteSets, TLC

VARIABLES variants_map, stock_set, memo, path, stack, call, ret, p_code,
          results, prev_first

vars == <<variants_map, stock_set, memo, path, stack, call, ret, p_code,
          results, prev_first>>

(***************************************************************************)
(* Bounds of the model.                                                    *)
(***************************************************************************)
\* rows of the target sheet processed in one analysis
MaxTargets == 2

\* product codes of the model: any of them may be a parent in the history
Codes == {"P1", "P2", "P3", "RM1", "RM2"}

(***************************************************************************)
(* Sentinels of the resolver.                                              *)
(***************************************************************************)
Direct == "Direct"
RawMaterial == "Raw Material"
CircularRef == "Circular Ref"
NoValidRecipe == "No Valid Recipe"

(***************************************************************************)
(* Float ratios as reduced fractions.                                      *)
(***************************************************************************)
RECURSIVE GCD(_, _)
GCD(a, b) == IF b = 0 THEN a ELSE GCD(b, a % b)

\* len(available_rms) / total_count if total_count > 0 else 0.0
Ratio(n, d) == IF d > 0 THEN <<n \div GCD(n, d), d \div GCD(n, d)>> ELSE <<0, 1>>

Zero == <<0, 1>>
One == <<1, 1>>
MinusOne == <<-1, 1>>

RatioGT(a, b) == a[1] * b[2] > b[1] * a[2]

(***************************************************************************)
(* Dictionaries are functions on their key set.                            *)
(***************************************************************************)
EmptyDict == [k \in {} |-> Direct]

\* d[k] = v
DictSet(d, k, v) == [x \in (DOMAIN d) \cup {k} |-> IF x = k THEN v ELSE d[x]]

\* a batch of the history: (batch_id, ingredients)
Batch(id, ings) == [batch_id |-> id, ingredients |-> ings]

\* the tuple the resolver returns
Result(rms, id, ratio, missing) ==
    [exploded |-> rms, batch_id |-> id, ratio |-> ratio, missing |-> missing]

\* the value a call for product_code has just returned to its caller
Returned(product_code, value) == [product_code |-> product_code, value |-> value]

(***************************************************************************)
(* get_best_recipe_path: the pieces of one activation.                     *)
(***************************************************************************)
\* mutant: the cycle branch reported as an in-stock leaf
CircularAsAvailable == Result({}, RawMaterial, One, EmptyDict)

\* line 43: the value returned for a code that is already on the path
CircularResult == Result({}, CircularRef, Zero, EmptyDict)

\* mutant: the stock is not consulted for the missing source
BaseCaseAlwaysMissing(product_code) ==
    Result({product_code}, RawMaterial,
           IF product_code \in stock_set THEN One ELSE Zero,
           DictSet(EmptyDict, product_code, Direct))

\* lines 47-50: raw material, or product with no history
BaseCaseResult(product_code) ==
    LET is_in_stock == product_code \in stock_set
        missing_src == IF is_in_stock THEN EmptyDict
                       ELSE DictSet(EmptyDict, product_code, Direct)
    IN  Result({product_code}, RawMaterial,
               IF is_in_stock THEN One ELSE Zero, missing_src)

\* mutant: a key with no batches that is in stock counts as available
NoRecipeStockAware(product_code) ==
    IF product_code \in stock_set
    THEN Result({product_code}, NoValidRecipe, One, EmptyDict)
    ELSE Result({product_code}, NoValidRecipe, Zero,
                DictSet(EmptyDict, product_code, Direct))

\* lines 105-106: no batch produced a result
NoRecipeResult(product_code) ==
    Result({product_code}, NoValidRecipe, Zero,
           DictSet(EmptyDict, product_code, Direct))

\* mutant: the "Direct" sentinel is passed up unchanged
MergeSourcesKeepDirect(current_missing_sources, child_missing_sources, product_code) ==
    [m \in (DOMAIN current_missing_sources) \cup (DOMAIN child_missing_sources) |->
        IF m \in DOMAIN child_missing_sources
        THEN child_missing_sources[m]
        ELSE current_missing_sources[m]]

\* mutant: every missing code of the child is attributed to the caller
MergeSourcesAlwaysParent(current_missing_sources, child_missing_sources, product_code) ==
    [m \in (DOMAIN current_missing_sources) \cup (DOMAIN child_missing_sources) |->
        IF m \in DOMAIN child_missing_sources
        THEN product_code
        ELSE current_missing_sources[m]]

\* mutant: the sources gathered from the earlier ingredients are forgotten
MergeSourcesDropOld(current_missing_sources, child_missing_sources, product_code) ==
    [m \in DOMAIN child_missing_sources |->
        IF child_missing_sources[m] = Direct
        THEN product_code
        ELSE child_missing_sources[m]]

\* lines 73-79: fold the child's missing sources into the batch's
MergeSources(current_missing_sources, child_missing_sources, product_code) ==
    [m \in (DOMAIN current_missing_sources) \cup (DOMAIN child_missing_sources) |->
        IF m \in DOMAIN child_missing_sources
        THEN IF child_missing_sources[m] = Direct
             THEN product_code
             ELSE child_missing_sources[m]
        ELSE current_missing_sources[m]]

\* mutant: the missing codes are counted instead of the available ones
ScoreOfMissing(current_exploded_rms) ==
    Ratio(Cardinality(current_exploded_rms \ stock_set),
          Cardinality(current_exploded_rms))

\* lines 82-86: the score of an exploded batch
Score(current_exploded_rms) ==
    LET available_rms == current_exploded_rms \cap stock_set
        total_count == Cardinality(current_exploded_rms)
    IN  Ratio(Cardinality(available_rms), total_count)

\* mutant: no tie-break on the size of the exploded set
IsBetterRatioOnly(ratio, total_count, best_score, best_len) ==
    RatioGT(ratio, best_score)

\* lines 89-94: prefer higher ratio, then more complex formulas
IsBetter(ratio, total_count, best_score, best_len) ==
    \/ RatioGT(ratio, best_score)
    \/ ratio = best_score /\ total_count > best_len

\* lines 53-57 and 59-63: the locals of an activation entering its loop
NewFrame(product_code) ==
    [product_code |-> product_code,
     bi |-> 1, ii |-> 1,
     current_exploded_rms |-> {},
     current_missing_sources |-> EmptyDict,
     best_result |-> <<>>,
     best_score |-> MinusOne,
     best_len |-> -1,
     evaluated |-> <<>>]

Top == stack[Len(stack)]
Pop == SubSeq(stack, 1, Len(stack) - 1)
SetTop(f) == [stack EXCEPT ![Len(stack)] = f]

possible_batches(f) == variants_map[f.product_code]

Idle == stack = <<>> /\ call = <<>> /\ ret = <<>>
Running == stack # <<>> /\ call = <<>> /\ ret = <<>>

(***************************************************************************)
(* Report rows (lines 184-230).                                            *)
(***************************************************************************)
NoVia == "no via"

\* lines 196-213: the annotation of each missing code of the row
MissingDetails(code, exploded_rms, missing_sources) ==
    LET actual_missing_rms == exploded_rms \ stock_set
    IN  [m_code \in actual_missing_rms |->
            LET parent_code == IF m_code \in DOMAIN missing_sources
                               THEN missing_sources[m_code]
                               ELSE Direct
            IN  IF parent_code = code THEN NoVia ELSE parent_code]

\* lines 184-230: the row appended for target p_code
ReportRow(code, r) ==
    [p_code |-> code,
     resolved |-> r,
     formula_ref |-> IF r.batch_id # RawMaterial THEN r.batch_id ELSE "N/A",
     num_exploded |-> Cardinality(r.exploded),
     num_available |-> Cardinality(r.exploded \cap stock_set),
     ratio |-> r.ratio,
     num_missing |-> Cardinality(r.exploded) - Cardinality(r.exploded \cap stock_set),
     missing_details |-> MissingDetails(code, r.exploded, r.missing)]

(***************************************************************************)
(* Actions.                                                                *)
(***************************************************************************)
\* lines 170-172: "Run Analysis" starts over with an empty memo_cache
RunAnalysis ==
    /\ Idle
    /\ results # <<>>
    /\ memo' = EmptyDict
    /\ results' = <<>>
    /\ prev_first' = <<results[1]>>
    /\ UNCHANGED <<variants_map, stock_set, path, stack, call, ret, p_code>>

\* lines 176-182: the driver calls the resolver for the next target row,
\* with the shared memo_cache and a fresh path
TopCall(code) ==
    /\ Idle
    /\ Len(results) < MaxTargets
    /\ p_code' = code
    /\ call' = <<code>>
    /\ path' = {}
    /\ UNCHANGED <<variants_map, stock_set, memo, stack, ret, results, prev_first>>

\* mutant: a cache hit puts the code on the path
CacheHitTouchesPath ==
    /\ call # <<>>
    /\ call[1] \in DOMAIN memo
    /\ ret' = <<Returned(call[1], memo[call[1]])>>
    /\ call' = <<>>
    /\ path' = path \cup {call[1]}
    /\ UNCHANGED <<variants_map, stock_set, memo, stack, p_code, results, prev_first>>

\* lines 38-39: check cache
CacheHit ==
    /\ call # <<>>
    /\ call[1] \in DOMAIN memo
    /\ ret' = <<Returned(call[1], memo[call[1]])>>
    /\ call' = <<>>
    /\ UNCHANGED <<variants_map, stock_set, memo, path, stack, p_code, results, prev_first>>

\* mutant: the circular-reference outcome is stored in the memo
CircularMemoized ==
    /\ call # <<>>
    /\ call[1] \notin DOMAIN memo
    /\ call[1] \in path
    /\ ret' = <<Returned(call[1], CircularResult)>>
    /\ memo' = DictSet(memo, call[1], CircularResult)
    /\ call' = <<>>
    /\ UNCHANGED <<variants_map, stock_set, path, stack, p_code, results, prev_first>>

\* lines 42-43: check circular
Circular ==
    /\ call # <<>>
    /\ call[1] \notin DOMAIN memo
    /\ call[1] \in path
    /\ ret' = <<Returned(call[1], CircularResult)>>
    /\ call' = <<>>
    /\ UNCHANGED <<variants_map, stock_set, memo, path, stack, p_code, results, prev_first>>

\* lines 46-50: base case
BaseCase ==
    /\ call # <<>>
    /\ call[1] \notin DOMAIN memo
    /\ call[1] \notin path
    /\ call[1] \notin DOMAIN variants_map
    /\ ret' = <<Returned(call[1], BaseCaseResult(call[1]))>>
    /\ call' = <<>>
    /\ UNCHANGED <<variants_map, stock_set, memo, path, stack, p_code, results, prev_first>>

\* lines 53-59: recursive search; the code goes on the path
Expand ==
    /\ call # <<>>
    /\ call[1] \notin DOMAIN memo
    /\ call[1] \notin path
    /\ call[1] \in DOMAIN variants_map
    /\ stack' = Append(stack, NewFrame(call[1]))
    /\ path' = path \cup {call[1]}
    /\ call' = <<>>
    /\ UNCHANGED <<variants_map, stock_set, memo, ret, p_code, results, prev_first>>

\* lines 66-68: the recursive call for the next ingredient of the batch
CallIngredient ==
    /\ Running
    /\ Top.bi <= Len(possible_batches(Top))
    /\ Top.ii <= Len(possible_batches(Top)[Top.bi].ingredients)
    /\ call' = <<possible_batches(Top)[Top.bi].ingredients[Top.ii]>>
    /\ UNCHANGED <<variants_map, stock_set, memo, path, stack, ret, p_code, results, prev_first>>

\* mutant: the ingredient itself is counted among the exploded codes
MergeAddsIngredient ==
    /\ stack # <<>>
    /\ ret # <<>>
    /\ stack' = SetTop([Top EXCEPT
            !.current_exploded_rms =
                @ \cup ret[1].value.exploded \cup {ret[1].product_code},
            !.current_missing_sources =
                MergeSources(@, ret[1].value.missing, Top.product_code),
            !.ii = @ + 1])
    /\ ret' = <<>>
    /\ UNCHANGED <<variants_map, stock_set, memo, path, call, p_code, results, prev_first>>

\* lines 67-79: the call returned; fold its result into the batch's
Merge ==
    /\ stack # <<>>
    /\ ret # <<>>
    /\ stack' = SetTop([Top EXCEPT
            !.current_exploded_rms = @ \cup ret[1].value.exploded,
            !.current_missing_sources =
                MergeSources(@, ret[1].value.missing, Top.product_code),
            !.ii = @ + 1])
    /\ ret' = <<>>
    /\ UNCHANGED <<variants_map, stock_set, memo, path, call, p_code, results, prev_first>>

\* mutant: a batch that becomes the best one is memoized at once
ScoreBatchMemoizesBest ==
    /\ Running
    /\ Top.bi <= Len(possible_batches(Top))
    /\ Top.ii > Len(possible_batches(Top)[Top.bi].ingredients)
    /\ LET f == Top
           batch_id == possible_batches(f)[f.bi].batch_id
           total_count == Cardinality(f.current_exploded_rms)
           ratio == Score(f.current_exploded_rms)
           this == Result(f.current_exploded_rms, batch_id, ratio,
                          f.current_missing_sources)
           is_better == IsBetter(ratio, total_count, f.best_score, f.best_len)
       IN  /\ stack' = SetTop([f EXCEPT
                  !.best_score = IF is_better THEN ratio ELSE @,
                  !.best_len = IF is_better THEN total_count ELSE @,
                  !.best_result = IF is_better THEN <<this>> ELSE @,
                  !.evaluated = Append(@, this),
                  !.bi = @ + 1,
                  !.ii = 1,
                  !.current_exploded_rms = {},
                  !.current_missing_sources = EmptyDict])
           /\ memo' = IF is_better
                      THEN DictSet(memo, f.product_code, this)
                      ELSE memo
    /\ UNCHANGED <<variants_map, stock_set, path, call, ret, p_code, results, prev_first>>

\* lines 81-100 (and 62-63 of the next iteration): score the batch
ScoreBatch ==
    /\ Running
    /\ Top.bi <= Len(possible_batches(Top))
    /\ Top.ii > Len(possible_batches(Top)[Top.bi].ingredients)
    /\ LET f == Top
           batch_id == possible_batches(f)[f.bi].batch_id
           total_count == Cardinality(f.current_exploded_rms)
           ratio == Score(f.current_exploded_rms)
           this == Result(f.current_exploded_rms, batch_id, ratio,
                          f.current_missing_sources)
           is_better == IsBetter(ratio, total_count, f.best_score, f.best_len)
       IN  stack' = SetTop([f EXCEPT
               !.best_score = IF is_better THEN ratio ELSE @,
               !.best_len = IF is_better THEN total_count ELSE @,
               !.best_result = IF is_better THEN <<this>> ELSE @,
               !.evaluated = Append(@, this),
               !.bi = @ + 1,
               !.ii = 1,
               !.current_exploded_rms = {},
               !.current_missing_sources = EmptyDict])
    /\ UNCHANGED <<variants_map, stock_set, memo, path, call, ret, p_code, results, prev_first>>

\* mutant: the code is not taken off the path
FinishKeepsPath ==
    /\ Running
    /\ Top.bi > Len(possible_batches(Top))
    /\ LET f == Top
           best_result == IF f.best_result = <<>>
                          THEN NoRecipeResult(f.product_code)
                          ELSE f.best_result[1]
       IN  /\ path' = path
           /\ memo' = DictSet(memo, f.product_code, best_result)
           /\ ret' = <<Returned(f.product_code, best_result)>>
    /\ stack' = Pop
    /\ UNCHANGED <<variants_map, stock_set, call, p_code, results, prev_first>>

\* lines 102-109: leave the path, memoize, return
Finish ==
    /\ Running
    /\ Top.bi > Len(possible_batches(Top))
    /\ LET f == Top
           best_result == IF f.best_result = <<>>
                          THEN NoRecipeResult(f.product_code)
                          ELSE f.best_result[1]
       IN  /\ path' = path \ {f.product_code}
           /\ memo' = DictSet(memo, f.product_code, best_result)
           /\ ret' = <<Returned(f.product_code, best_result)>>
    /\ stack' = Pop
    /\ UNCHANGED <<variants_map, stock_set, call, p_code, results, prev_first>>

\* lines 184-230: the driver builds the row of the target
Report ==
    /\ stack = <<>>
    /\ ret # <<>>
    /\ results' = Append(results, ReportRow(p_code, ret[1].value))
    /\ ret' = <<>>
    /\ UNCHANGED <<variants_map, stock_set, memo, path, stack, call, p_code, prev_first>>

(***************************************************************************)
(* The uploaded history and stock.                                         *)
(***************************************************************************)
B1(ings) == Batch("B1", ings)
B2(ings) == Batch("B2", ings)

\* the batch lists a parent may carry in the history; {} leaves the code
\* without history (a raw material)
Recipes1 ==
    { <<B1(<<"RM1", "RM2">>)>>,
      <<B1(<<"RM1", "RM2">>), B2(<<"RM1">>)>>,
      <<B1(<<"RM1">>), B2(<<"RM1", "RM2">>)>>,
      <<B1(<<"RM1">>), B2(<<"RM2">>)>>,
      <<B1(<<"P2">>)>>,
      <<B1(<<"P2">>), B2(<<"RM1">>)>>,
      <<B1(<<"RM1", "P2">>)>>,
      <<B1(<<"P2", "RM1">>)>>,
      <<B1(<<"P1", "RM1">>)>>,
      <<B1(<<"RM1", "RM1">>)>>,
      <<>> }

Recipes2 ==
    { <<B1(<<"P1">>)>>,
      <<B1(<<"P1", "RM2">>)>>,
      <<B1(<<"P3">>)>>,
      <<B1(<<"RM1", "P3">>)>>,
      <<B1(<<"P3", "RM1">>)>>,
      <<B1(<<"RM1">>)>>,
      <<>> }

Recipes3 ==
    { <<B1(<<"RM1">>)>>,
      <<B1(<<"P1">>)>> }

Optional(S) == {{}} \cup {{x} : x \in S}

History(c1, c2, c3) ==
    LET choice == ("P1" :> c1) @@ ("P2" :> c2) @@ ("P3" :> c3)
        parents == {p \in {"P1", "P2", "P3"} : choice[p] # {}}
    IN  [p \in parents |-> CHOOSE l \in choice[p] : TRUE]

Graphs ==
    { History(c1, c2, c3) : c1 \in Optional(Recipes1),
                            c2 \in Optional(Recipes2),
                            c3 \in Optional(Recipes3) }

Stocks == SUBSET {"P2", "RM1", "RM2"}

Init ==
    /\ variants_map \in Graphs
    /\ stock_set \in Stocks
    /\ memo = EmptyDict
    /\ path = {}
    /\ stack = <<>>
    /\ call = <<>>
    /\ ret = <<>>
    /\ p_code = ""
    /\ results = <<>>
    /\ prev_first = <<>>

Next ==
    \/ \E code \in Codes : TopCall(code)
    \/ CacheHit
    \/ Circular
    \/ BaseCase
    \/ Expand
    \/ CallIngredient
    \/ Merge
    \/ ScoreBatch
    \/ Finish
    \/ Report

\* the steps of the resolver and of the driver once a call has been made
Step ==
    \/ CacheHit
    \/ Circular
    \/ BaseCase
    \/ Expand
    \/ CallIngredient
    \/ Merge
    \/ ScoreBatch
    \/ Finish
    \/ Report

Spec == Init /\ [][Next]_vars

\* which calls are made depends on the history, the memo and the path, not on
\* the stock: the runs to completion are followed for two stock sets
InitFair ==
    /\ Init
    /\ stock_set \in {{}, {"RM1"}}

\* the interpreter runs a call that has been made to its end
SpecFair == InitFair /\ [][Next]_vars /\ WF_vars(Step)

(***************************************************************************)
(* A second analysis over the same uploads, and one over a history whose   *)
(* rows arrive in another order.  prev_first keeps the first row of the    *)
(* analysis before: the result of a top-level call with an empty memo.     *)
(***************************************************************************)
GraphsTwo ==
    { History(c1, c2, {}) : c1 \in Optional(Recipes1), c2 \in Optional(Recipes2) }

InitTwo ==
    /\ Init
    /\ variants_map \in GraphsTwo

\* the orders in which the rows of one batch can arrive
Reorderings(ingredients) ==
    LET n == Len(ingredients)
        Bijections == {f \in [1..n -> 1..n] : \A i, j \in 1..n : f[i] = f[j] => i = j}
    IN  {[i \in 1..n |-> ingredients[f[i]]] : f \in Bijections}

\* lines 127-168 and 170-172: the history is uploaded again with the rows of
\* one batch in another order, and the analysis is run on it
ReorderHistory ==
    /\ Idle
    /\ results # <<>>
    /\ \E parent \in DOMAIN variants_map :
        \E b \in 1..Len(variants_map[parent]) :
          \E ings \in Reorderings(variants_map[parent][b].ingredients) :
            /\ ings # variants_map[parent][b].ingredients
            /\ variants_map' = [variants_map EXCEPT ![parent][b].ingredients = ings]
    /\ memo' = EmptyDict
    /\ results' = <<>>
    /\ prev_first' = <<results[1]>>
    /\ UNCHANGED <<stock_set, path, stack, call, ret, p_code>>

NextRerun == Next \/ RunAnalysis

NextReorder == Next \/ ReorderHistory

SpecRerun == InitTwo /\ [][NextRerun]_vars

SpecReorder == InitTwo /\ [][NextReorder]_vars

(***************************************************************************)
(* Vocabulary of the properties.                                           *)
(***************************************************************************)
Range(seq) == {seq[i] : i \in 1..Len(seq)}

\* the codes some batch of parent lists as an ingredient
Ingredients(parent) ==
    IF parent \in DOMAIN variants_map
    THEN UNION {Range(variants_map[parent][b].ingredients) :
                    b \in 1..Len(variants_map[parent])}
    ELSE {}

RECURSIVE Closure(_)
Closure(S) ==
    LET more == S \cup UNION {Ingredients(c) : c \in S}
    IN  IF more = S THEN S ELSE Closure(more)

\* the codes below code in the history, code itself excluded unless on a cycle
Reach(code) == Closure(Ingredients(code))

HasBatches(code) == code \in DOMAIN variants_map /\ variants_map[code] # <<>>

IsRaw(code) == code \notin DOMAIN variants_map

\* the batches of code whose BatchID is id
BatchesNamed(code, id) ==
    {b \in 1..Len(variants_map[code]) : variants_map[code][b].batch_id = id}

(***************************************************************************)
(* C1.  Results do not depend on what the memo already holds: a top-level  *)
(* resolve of a code in an analysis whose memo was filled by earlier       *)
(* targets returns what a top-level resolve of that code with an empty     *)
(* memo returned (the first row of the analysis before, over the same      *)
(* history and stock).                                                     *)
(***************************************************************************)
C1_MemoIndependent ==
    \A k \in 1..Len(results) :
        (prev_first # <<>> /\ results[k].p_code = prev_first[1].p_code)
            => results[k].resolved = prev_first[1].resolved

(***************************************************************************)
(* C2.  The example P1 = [B1 = [RM1, RM2]], stock {RM1}.                   *)
(***************************************************************************)
ExampleTwoGraph == "P1" :> <<B1(<<"RM1", "RM2">>)>>

ExampleTwoFirstRow ==
    /\ variants_map = ExampleTwoGraph
    /\ stock_set = {"RM1"}
    /\ results # <<>>
    /\ results[1].p_code = "P1"

\* a missing raw material listed by the winning batch of the row's target and
\* below no other ingredient of that batch
DirectMissing(row) ==
    LET code == row.p_code
    IN  IF HasBatches(code)
        THEN {m \in Codes :
                /\ IsRaw(m)
                /\ m \notin stock_set
                /\ \E b \in BatchesNamed(code, row.resolved.batch_id) :
                    LET ings == Range(variants_map[code][b].ingredients)
                    IN  /\ m \in ings
                        /\ \A other \in ings \ {m} : m \notin Reach(other)}
        ELSE {}

\* C2 as stated: resolving P1 gives ({RM1, RM2}, B1, 0.5, {RM2: "Direct"}), and
\* a missing raw material that is a direct ingredient of the top-level target
\* is attributed to "Direct" in the target's result.
C2_Original ==
    /\ ExampleTwoFirstRow =>
         results[1].resolved =
            Result({"RM1", "RM2"}, "B1", <<1, 2>>, "RM2" :> Direct)
    /\ \A k \in 1..Len(results) :
         \A m \in DirectMissing(results[k]) :
            /\ m \in DOMAIN results[k].resolved.missing
            /\ results[k].resolved.missing[m] = Direct

\* C2 as amended: resolving P1 gives ({RM1, RM2}, B1, 0.5, {RM2: P1}), and a
\* missing raw material that is a direct ingredient of the target's winning
\* batch, and is not below another ingredient of that batch, is attributed to
\* the target's own code.
C2_Amended ==
    /\ ExampleTwoFirstRow =>
         results[1].resolved =
            Result({"RM1", "RM2"}, "B1", <<1, 2>>, "RM2" :> "P1")
    /\ \A k \in 1..Len(results) :
         \A m \in DirectMissing(results[k]) :
            /\ m \in DOMAIN results[k].resolved.missing
            /\ results[k].resolved.missing[m] = results[k].p_code

C2_Witness ==
    /\ ExampleTwoFirstRow
    /\ results[1].resolved.missing = ("RM2" :> "P1")
    /\ DirectMissing(results[1]) = {"RM2"}

(***************************************************************************)
(* C3.  Every top-level call terminates and returns a result, on cyclic    *)
(* histories too; a call for a code already on the path returns            *)
(* (empty set, "Circular Ref", 0.0, empty map) at once, without            *)
(* recursing.                                                              *)
(***************************************************************************)
TopCallPending == call # <<>> /\ stack = <<>>

TopCallReturned == stack = <<>> /\ call = <<>> /\ ret # <<>> /\ ret[1].product_code = p_code

ReentryReturnsAtOnce ==
    (call # <<>> /\ call[1] \in path) =>
        /\ ret' = <<Returned(call[1], Result({}, "Circular Ref", <<0, 1>>, <<>>))>>
        /\ call' = <<>>
        /\ stack' = stack
        /\ path' = path

C3_Terminates ==
    /\ TopCallPending ~> TopCallReturned
    /\ [][ReentryReturnsAtOnce]_vars

\* a call re-entered a code on the path of a cyclic history and returned
C3_Witness ==
    /\ ret # <<>>
    /\ ret[1].value.batch_id = CircularRef
    /\ ret[1].product_code \in path
    /\ Len(stack) >= 2
    /\ ret[1].product_code \in Reach(ret[1].product_code)

(***************************************************************************)
(* C4.  The result stored and returned for a code with batches is that of  *)
(* the batch whose (ratio, exploded-set size) is lexicographically         *)
(* maximal, the earliest such batch on a tie; in the examples              *)
(* [B1 = [RM1, RM2], B2 = [RM1]] with stock {RM1} and                      *)
(* [B1 = [RM1], B2 = [RM1, RM2]] with stock {RM1, RM2} the winner is B2.   *)
(***************************************************************************)
Available(r) == Cardinality(r.exploded \cap stock_set)
Size(r) == Cardinality(r.exploded)

\* a has the higher availability ratio (an empty exploded set has ratio 0)
HigherRatio(a, b) ==
    IF Size(a) = 0 THEN FALSE
    ELSE IF Size(b) = 0 THEN Available(a) > 0
    ELSE Available(a) * Size(b) > Available(b) * Size(a)

Beats(a, b) ==
    \/ HigherRatio(a, b)
    \/ ~HigherRatio(b, a) /\ Size(a) > Size(b)

Winner(evaluated) ==
    evaluated[CHOOSE k \in 1..Len(evaluated) :
                /\ \A j \in 1..Len(evaluated) : ~Beats(evaluated[j], evaluated[k])
                /\ \A j \in 1..(k - 1) : Beats(evaluated[k], evaluated[j])]

ActivationReturns == Len(stack') = Len(stack) - 1

WinnerStoredAndReturned ==
    (ActivationReturns /\ variants_map[Top.product_code] # <<>>) =>
        LET code == Top.product_code
            batches == variants_map[code]
        IN  /\ Len(Top.evaluated) = Len(batches)
            /\ \A k \in 1..Len(batches) :
                  Top.evaluated[k].batch_id = batches[k].batch_id
            /\ ret' = <<Returned(code, Winner(Top.evaluated))>>
            /\ code \in DOMAIN memo'
            /\ memo'[code] = Winner(Top.evaluated)

ExampleThree ==
    /\ variants_map["P1"] = <<B1(<<"RM1", "RM2">>), B2(<<"RM1">>)>>
    /\ stock_set \cap {"RM1", "RM2"} = {"RM1"}

ExampleFour ==
    /\ variants_map["P1"] = <<B1(<<"RM1">>), B2(<<"RM1", "RM2">>)>>
    /\ {"RM1", "RM2"} \subseteq stock_set

ExamplesPickSecond ==
    ("P1" \in DOMAIN variants_map /\ "P1" \in DOMAIN memo
        /\ (ExampleThree \/ ExampleFour))
      => memo["P1"].batch_id = "B2"

C4_BestBatchWins ==
    /\ [][WinnerStoredAndReturned]_vars
    /\ []ExamplesPickSecond

\* a code with two batches of equal ratio and different sizes has been
\* resolved, and the later, larger one won
C4_Witness ==
    /\ "P1" \in DOMAIN variants_map
    /\ ExampleFour
    /\ "P1" \in DOMAIN memo
    /\ memo["P1"].batch_id = "B2"
    /\ memo["P1"].exploded = {"RM1", "RM2"}

(***************************************************************************)
(* C5.  Ratio law for the results returned for the parents of the history. *)
(***************************************************************************)
RatioLaw(r) ==
    r.ratio[1] * Cardinality(r.exploded)
        = Cardinality(r.exploded \cap stock_set) * r.ratio[2]

ReturnedForParent ==
    /\ ret # <<>>
    /\ ret[1].product_code \in DOMAIN variants_map
    /\ ret[1].value.exploded # {}

\* C5 as stated: for every result returned for a key of the history (a key
\* with an empty batch list included) with a non-empty ExplodedSet,
\* ratio * |ExplodedSet| = |ExplodedSet /\ stockSet|.
C5_Original == ReturnedForParent => RatioLaw(ret[1].value)

\* C5 as amended: the law holds for every such result except that of a key
\* with an empty batch list that is itself in stock, whose result has ratio
\* 0.0 although its ExplodedSet {code} is wholly in stock.
C5_Amended ==
    ReturnedForParent =>
        IF variants_map[ret[1].product_code] = <<>> /\ ret[1].product_code \in stock_set
        THEN ret[1].value.ratio = <<0, 1>> /\ ret[1].value.exploded \subseteq stock_set
        ELSE RatioLaw(ret[1].value)

\* a parent returned a result whose exploded set is partly in stock
C5_Witness ==
    /\ ReturnedForParent
    /\ HasBatches(ret[1].product_code)
    /\ ret[1].value.ratio = <<1, 2>>
    /\ Cardinality(ret[1].value.exploded) = 2

(***************************************************************************)
(* C6.  Provenance of a raw material missing below an intermediate.        *)
(***************************************************************************)
\* the ingredients of the batch that won for a resolved parent
WinIngredients(code) ==
    IF code \in DOMAIN memo /\ HasBatches(code)
    THEN UNION {Range(variants_map[code][b].ingredients) :
                    b \in BatchesNamed(code, memo[code].batch_id)}
    ELSE {}

\* the codes whose winning batches lead down to inter, at any number of levels
RECURSIVE WinAboveFrom(_, _)
WinAboveFrom(S, inter) ==
    LET more == S \cup {c \in Codes : WinIngredients(c) \cap (S \cup {inter}) # {}}
    IN  IF more = S THEN S ELSE WinAboveFrom(more, inter)

WinAbove(inter) == WinAboveFrom({}, inter)

\* the codes below code on a chain of ingredients that does not go through inter
RECURSIVE AvoidingFrom(_, _)
AvoidingFrom(S, inter) ==
    LET more == S \cup UNION {Ingredients(c) : c \in S \ {inter}}
    IN  IF more = S THEN S ELSE AvoidingFrom(more, inter)

OnlyThrough(code, inter, m) ==
    /\ code # inter
    /\ m \notin AvoidingFrom(Ingredients(code), inter)

\* inter's winning batch lists the missing leaf m
UsesMissingLeaf(inter, m) ==
    /\ IsRaw(m)
    /\ m \notin stock_set
    /\ m \in WinIngredients(inter)

\* C6 as stated: Target's winning batch uses Intermediate (at one or more
\* levels), Intermediate's winning batch uses the leaf MissingRM, MissingRM
\* is not in stock and is reachable from Target only through Intermediate:
\* then Target's MissingProvenance maps MissingRM to Intermediate.
C6_Original ==
    \A k \in 1..Len(results) : \A inter, m \in Codes :
        ( /\ UsesMissingLeaf(inter, m)
          /\ OnlyThrough(results[k].p_code, inter, m)
          /\ results[k].p_code \in WinAbove(inter) )
        => /\ m \in DOMAIN results[k].resolved.missing
           /\ results[k].resolved.missing[m] = inter


(***************************************************************************)
(* C7.  The order of the ingredients inside a batch is not significant:    *)
(* after the rows of a batch have been permuted, a top-level resolve of a  *)
(* code with an empty memo returns what it returned before the             *)
(* permutation.                                                            *)
(***************************************************************************)
C7_OrderIrrelevant ==
    (prev_first # <<>> /\ results # <<>> /\ results[1].p_code = prev_first[1].p_code)
        => results[1].resolved = prev_first[1].resolved

(***************************************************************************)
(* C8.  The base case: a call for a code without history that is neither   *)
(* memoized nor on the path.                                               *)
(***************************************************************************)
BaseCaseCall ==
    /\ call # <<>>
    /\ IsRaw(call[1])
    /\ call[1] \notin DOMAIN memo
    /\ call[1] \notin path

\* ({code}, "Raw Material", 1.0, {}) in stock, ({code}, "Raw Material", 0.0,
\* {code: "Direct"}) otherwise
LeafValue(code) ==
    IF code \in stock_set
    THEN Result({code}, "Raw Material", <<1, 1>>, <<>>)
    ELSE Result({code}, "Raw Material", <<0, 1>>, code :> "Direct")

\* C8 as stated: the call returns the leaf value and, on return, memo holds
\* that result under code.
C8_Original ==
    [][BaseCaseCall =>
          /\ ret' = <<Returned(call[1], LeafValue(call[1]))>>
          /\ call[1] \in DOMAIN memo'
          /\ memo'[call[1]] = LeafValue(call[1])]_vars

\* C8 as amended: the call returns the leaf value and leaves memo (and path)
\* as they were: the result is not memoized, and memo never holds an entry
\* for a code absent from the history.
C8_Amended ==
    /\ [][BaseCaseCall =>
            /\ ret' = <<Returned(call[1], LeafValue(call[1]))>>
            /\ memo' = memo
            /\ path' = path
            /\ stack' = stack]_vars
    /\ [](\A code \in DOMAIN memo : ~IsRaw(code))

\* a missing raw material has been resolved below a parent that is
\* memoized, and the memo holds nothing for it
C8_Witness ==
    /\ ret # <<>>
    /\ IsRaw(ret[1].product_code)
    /\ ret[1].product_code \notin stock_set
    /\ ret[1].value = LeafValue(ret[1].product_code)
    /\ memo # <<>>
    /\ ret[1].product_code \notin DOMAIN memo

(***************************************************************************)
(* C9.  Resolving the same code twice at top level with the same memo      *)
(* returns equal results; a call for a code already in memo returns        *)
(* memo[code] at once and leaves memo and path as they were.               *)
(***************************************************************************)
SameTargetSameResult ==
    \A j, k \in 1..Len(results) :
        results[j].p_code = results[k].p_code
            => results[j].resolved = results[k].resolved

CachedCallHasNoEffect ==
    (call # <<>> /\ call[1] \in DOMAIN memo) =>
        /\ ret' = <<Returned(call[1], memo[call[1]])>>
        /\ call' = <<>>
        /\ memo' = memo
        /\ path' = path
        /\ stack' = stack

C9_Idempotent ==
    /\ []SameTargetSameResult
    /\ [][CachedCallHasNoEffect]_vars

\* a parent on a cycle has been resolved twice in a row from the top, the
\* second time from the memo
C9_Witness ==
    /\ Len(results) = 2
    /\ results[1].p_code = results[2].p_code
    /\ results[1].p_code \in DOMAIN memo
    /\ results[1].p_code \in Reach(results[1].p_code)
    /\ results[2].resolved = memo[results[2].p_code]
    /\ results[2].resolved.exploded # {}

(***************************************************************************)
(* C10.  The circular-reference outcome is never memoized.                 *)
(***************************************************************************)
CircularCallKeepsMemo ==
    (call # <<>> /\ call[1] \in path /\ call[1] \notin DOMAIN memo)
        => (memo' = memo /\ ret' # <<>> /\ ret'[1].value.batch_id = "Circular Ref")

NoCircularEntry ==
    \A code \in DOMAIN memo : memo[code].batch_id # "Circular Ref"

C10_CircularNeverMemoized ==
    /\ [][CircularCallKeepsMemo]_vars
    /\ []NoCircularEntry

\* a call has just returned the circular-reference outcome while memo holds
\* entries, none of them for the code of the call
C10_Witness ==
    /\ ret # <<>>
    /\ ret[1].value.batch_id = CircularRef
    /\ ret[1].product_code \in path
    /\ memo # <<>>
    /\ ret[1].product_code \notin DOMAIN memo

(***************************************************************************)
(* C11.  Path discipline: the path is exactly the set of codes whose       *)
(* expansion is on the call stack; every call returns with the path as it  *)
(* was at its entry (empty after a top-level call); the removal at the     *)
(* end of the recursive case finds the code on the path.                   *)
(***************************************************************************)
StackCodes(stk) == {stk[i].product_code : i \in 1..Len(stk)}

PathIsStack ==
    /\ path = StackCodes(stack)
    /\ Cardinality(path) = Len(stack)

\* path.remove(product_code) is about to run
AboutToLeave == Running /\ Top.bi > Len(possible_batches(Top))

RemovalFindsCode == AboutToLeave => Top.product_code \in path

\* a call that returns without expanding leaves the path alone; one that
\* expanded returns with the path of the activations below it
CallRestoresPath ==
    /\ (call # <<>> /\ ret' # <<>>) => path' = path
    /\ ActivationReturns =>
          /\ path' = path \ {Top.product_code}
          /\ path' = StackCodes(stack')
          /\ Top.product_code \notin path'

C11_PathDiscipline ==
    /\ [](PathIsStack /\ RemovalFindsCode /\ (TopCallReturned => path = {}))
    /\ [][CallRestoresPath]_vars

\* an activation two levels below the target has returned and left the path
C11_Witness ==
    /\ Len(stack) = 2
    /\ ret # <<>>
    /\ HasBatches(ret[1].product_code)
    /\ ret[1].product_code \in DOMAIN memo
    /\ ret[1].product_code \notin path
    /\ path = {stack[1].product_code, stack[2].product_code}

(***************************************************************************)
(* C12.  In every returned result the keys of the missing sources are the  *)
(* exploded codes that are not in stock.                                   *)
(***************************************************************************)
MissingKeys(r) == DOMAIN r.missing

\* a key of the history whose batch list is empty
EmptyKey(code) == code \in DOMAIN variants_map /\ variants_map[code] = <<>>

C12_Original ==
    ret # <<>> =>
        MissingKeys(ret[1].value) = ret[1].value.exploded \ stock_set

\* C12 as the code has it: the keys of the missing sources are the exploded
\* codes that are not in stock or that are keys with an empty batch list
C12_Amended ==
    ret # <<>> =>
        LET r == ret[1].value
        IN  MissingKeys(r) =
                (r.exploded \ stock_set) \cup {c \in r.exploded : EmptyKey(c)}

\* a recursive result holding a key with no batches that is in stock, next
\* to a raw material that is missing and one more exploded code
C12_Witness ==
    /\ ret # <<>>
    /\ HasBatches(ret[1].product_code)
    /\ \E c \in ret[1].value.exploded : EmptyKey(c) /\ c \in stock_set
    /\ \E m \in ret[1].value.exploded : IsRaw(m) /\ m \notin stock_set
    /\ MissingKeys(ret[1].value) = ret[1].value.exploded

(***************************************************************************)
(* C13.  Every code of every returned exploded set is terminal: it is not  *)
(* a key of the history, or it is a key with an empty batch list.  A code  *)
(* with at least one batch is never in an exploded set, on acyclic and on  *)
(* cyclic histories.                                                       *)
(***************************************************************************)
Terminal(code) == IsRaw(code) \/ EmptyKey(code)

C13_ExplodedTerminal ==
    ret # <<>> =>
        /\ \A c \in ret[1].value.exploded : Terminal(c)
        /\ \A c \in ret[1].value.exploded : ~HasBatches(c)

\* a result on a cycle: the code is reachable from itself, its winning
\* batch went through an intermediate, and its exploded set is not empty
C13_Witness ==
    /\ ret # <<>>
    /\ HasBatches(ret[1].product_code)
    /\ ret[1].product_code \in Reach(ret[1].product_code)
    /\ ret[1].value.exploded # {}
    /\ \E b \in BatchesNamed(ret[1].product_code, ret[1].value.batch_id) :
          \E i \in Range(variants_map[ret[1].product_code][b].ingredients) :
              HasBatches(i)

(***************************************************************************)
(* C14.  The memo is write-once during an analysis: an entry, once set, is *)
(* never changed or removed; each entry is written at most once, so no     *)
(* nested call memoizes a code that is still on the path; and a stored     *)
(* result is never altered through the sets and maps a parent builds.      *)
(***************************************************************************)
MemoKept ==
    \A c \in DOMAIN memo : c \in DOMAIN memo' /\ memo'[c] = memo[c]

\* a write to the memo adds one code that had no entry
WrittenOnce ==
    memo' # memo =>
        \E c \in Codes \ DOMAIN memo :
            /\ DOMAIN memo' = DOMAIN memo \cup {c}
            /\ c = Top.product_code
            /\ ActivationReturns

NotMemoizedOnPath == path \cap DOMAIN memo = {}

\* the set and the map that lines 70-79 update belong to a batch of an
\* activation that has not been scored or stored yet: they are the objects
\* made at lines 62-63 for batch bi of the code on top of the stack
AccumulatorIsPrivate ==
    (stack # <<>> /\ ret # <<>>) =>
        /\ Top.product_code \notin DOMAIN memo
        /\ Len(Top.evaluated) = Top.bi - 1
        /\ Top.bi <= Len(possible_batches(Top))

C14_MemoWriteOnce ==
    /\ [][MemoKept /\ WrittenOnce]_vars
    /\ [](NotMemoizedOnPath /\ AccumulatorIsPrivate)

\* a parent folds in the result of a memoized child while two codes are
\* already stored
C14_Witness ==
    /\ stack # <<>>
    /\ ret # <<>>
    /\ Cardinality(DOMAIN memo) >= 2
    /\ ret[1].product_code \in DOMAIN memo
    /\ memo[ret[1].product_code] = ret[1].value
    /\ ret[1].value.exploded # {}
    /\ Top.current_exploded_rms # {}

(***************************************************************************)
(* C15.  A call for a key of the history whose batch list is empty returns *)
(* ({code}, "No Valid Recipe", 0.0, {code: "Direct"}), stores that result  *)
(* in memo[code] and leaves the path as it was at entry.                   *)
(***************************************************************************)
NoRecipeValue(code) ==
    [exploded |-> {code}, batch_id |-> "No Valid Recipe", ratio |-> <<0, 1>>,
     missing |-> [m \in {code} |-> "Direct"]]

\* the first call for such a code goes into the recursive case
NoRecipeEntry ==
    (call # <<>> /\ EmptyKey(call[1]) /\ call[1] \notin DOMAIN memo) =>
        /\ call[1] \notin path
        /\ stack' = Append(stack, NewFrame(call[1]))
        /\ path' = path \cup {call[1]}
        /\ memo' = memo

\* no batch is explored: the activation returns in its next step
NoRecipeReturn ==
    (stack # <<>> /\ EmptyKey(Top.product_code)) =>
        /\ ret' = <<Returned(Top.product_code, NoRecipeValue(Top.product_code))>>
        /\ memo' = DictSet(memo, Top.product_code, NoRecipeValue(Top.product_code))
        /\ stack' = Pop
        /\ path' = path \ {Top.product_code}
        /\ path' = StackCodes(stack')

NoRecipeReturned ==
    (ret # <<>> /\ EmptyKey(ret[1].product_code)) =>
        /\ ret[1].value = NoRecipeValue(ret[1].product_code)
        /\ ret[1].product_code \in DOMAIN memo
        /\ memo[ret[1].product_code] = ret[1].value
        /\ ret[1].product_code \notin path

C15_NoValidRecipe ==
    /\ [][NoRecipeEntry /\ NoRecipeReturn]_vars
    /\ []NoRecipeReturned

\* a nested call for a key with no batches, itself in stock, has returned
C15_Witness ==
    /\ ret # <<>>
    /\ EmptyKey(ret[1].product_code)
    /\ ret[1].product_code \in stock_set
    /\ stack # <<>>
    /\ path = StackCodes(stack)
    /\ ret[1].value.batch_id = NoValidRecipe
    /\ memo[ret[1].product_code].missing[ret[1].product_code] = Direct

(***************************************************************************)
(* C16.  In a report row a missing code carries a "via X" annotation       *)
(* exactly when its provenance differs from the target's code, and every   *)
(* annotated X is a product of the history, never the "Direct" sentinel;   *)
(* a target that is itself a missing raw material, or a "No Valid Recipe"  *)
(* code, is listed without annotation.                                     *)
(***************************************************************************)
Annotated(row, m_code) == row.missing_details[m_code] # NoVia

ViaLaw(row) ==
    \A m_code \in DOMAIN row.missing_details :
        /\ m_code \in DOMAIN row.resolved.missing
        /\ Annotated(row, m_code) <=>
               row.resolved.missing[m_code] # row.p_code
        /\ Annotated(row, m_code) =>
               /\ row.missing_details[m_code] # Direct
               /\ row.missing_details[m_code] \in DOMAIN variants_map
        /\ m_code = row.p_code => ~Annotated(row, m_code)

C16_Original == \A i \in 1..Len(results) : ViaLaw(results[i])

(***************************************************************************)
(* C17.  In every result returned for a code with at least one batch, each *)
(* value of the missing sources is a key of the history with a batch that  *)
(* lists the missing code directly; "Direct" is never such a value, and    *)
(* the value is never the missing code itself.                             *)
(***************************************************************************)
ListsDirectly(parent, m_code) ==
    /\ parent \in DOMAIN variants_map
    /\ \E b \in 1..Len(variants_map[parent]) :
          m_code \in Range(variants_map[parent][b].ingredients)

SourcesAreDirectParents(r) ==
    \A m_code \in DOMAIN r.missing :
        /\ r.missing[m_code] # "Direct"
        /\ r.missing[m_code] # m_code
        /\ ListsDirectly(r.missing[m_code], m_code)

C17_DirectParent ==
    (ret # <<>> /\ HasBatches(ret[1].product_code)) =>
        SourcesAreDirectParents(ret[1].value)

\* a result with one missing code listed by the code itself and another
\* one listed by an intermediate below it
C17_Witness ==
    /\ ret # <<>>
    /\ HasBatches(ret[1].product_code)
    /\ \E m1, m2 \in DOMAIN ret[1].value.missing :
          /\ ret[1].value.missing[m1] = ret[1].product_code
          /\ ret[1].value.missing[m2] # ret[1].product_code
          /\ ListsDirectly(ret[1].value.missing[m2], m2)
          /\ ~ListsDirectly(ret[1].product_code, m2)

====
